---- MODULE Spec2Model ----
(***************************************************************************)
(* Verification model of gtsam/hybrid/HybridFactor.h:                      *)
(*   - GraphAndConstant (operator== and tolerance equals),                 *)
(*   - the key-collection utilities CollectKeys / CollectDiscreteKeys,     *)
(*   - GaussianFactorGraphTree = DecisionTree<Key, GraphAndConstant>,      *)
(*   - the HybridFactor base class (classification flags, key sets).       *)
(* Keys are small naturals, a DiscreteKey is the pair <<key, cardinality>>,*)
(* a double is an integer number of fixed-point units, and a              *)
(* GaussianFactorGraph is the sequence of its factor pointers.            *)
(***************************************************************************)
EXTENDS Integers, Sequences, FiniteSets, TLC

VARIABLES
  factor, form, argC, argD, obs,          \* a HybridFactor object and what built / read it
  keys1, keys2, allKeys,                  \* CollectKeys(keys1, keys2)
  dkey1, dkey2, allDKeys,                 \* CollectDiscreteKeys(key1, key2)
  x, y, tol, resEquals, resOpEq,          \* GraphAndConstant comparisons
  tKeys, tLeaves, tree,                   \* a GaussianFactorGraphTree and its enumeration
  oKeys, oLeaves, other,                  \* a second tree
  combined, asg, got                      \* leaf-wise combination and the last lookup

factorVars == <<factor, form, argC, argD, obs>>
keyVars    == <<keys1, keys2, allKeys, dkey1, dkey2, allDKeys>>
eqVars     == <<x, y, tol, resEquals, resOpEq>>
treeVars   == <<tKeys, tLeaves, tree, oKeys, oLeaves, other, combined, asg, got>>
vars       == <<factorVars, keyVars, eqVars, treeVars>>

(***************************************************************************)
(* Bounds                                                                  *)
(***************************************************************************)
MaxFactorKeys == 2      \* longest key vector handed to a HybridFactor constructor
MaxLen        == 3      \* longest key vector handed to CollectKeys
NumKeys       == 3      \* distinct key identifiers seen by the key utilities
MaxDLen       == 2      \* longest DiscreteKeys vector handed to CollectDiscreteKeys
MaxGraphLen   == 1      \* most factors in a compared GaussianFactorGraph
MaxConst      == 2      \* largest constant (fixed-point units) in a comparison
MaxTol        == 2      \* largest tolerance (fixed-point units)
MaxLeafConst  == 1      \* largest constant stored in a tree leaf

\* An absent object or result is the empty tuple, a present one a 1-tuple.
None == <<>>
Some(v) == <<v>>
The(o) == o[1]

SeqsUpTo(S, n) == UNION {[1..k -> S] : k \in 0..n}
Range(s) == {s[i] : i \in 1..Len(s)}
NoDup(s) == \A i, j \in 1..Len(s) : s[i] = s[j] => i = j
Abs(v) == IF v < 0 THEN -v ELSE v

(***************************************************************************)
(* Key-set utilities                                                       *)
(***************************************************************************)
\* Append the keys of ks to acc, skipping keys acc already holds.
RECURSIVE AppendNew(_, _)
AppendNew(acc, ks) ==
  IF ks = <<>> THEN acc
  ELSE AppendNew(IF Head(ks) \in Range(acc) THEN acc ELSE Append(acc, Head(ks)),
                 Tail(ks))

\* Faulty variant: plain concatenation, shared keys appear twice.
CollectKeysConcat(k1, k2) == k1 \o k2

CollectKeys(k1, k2) == AppendNew(AppendNew(<<>>, k1), k2)

\* The variable identifiers underlying a DiscreteKeys vector.
Indices(dks) == [i \in 1..Len(dks) |-> dks[i][1]]

\* Overload: continuous keys followed by the identifiers of the discrete keys.
CollectKeysCD(continuousKeys, discreteKeys) ==
  CollectKeys(continuousKeys, Indices(discreteKeys))

\* Append the discrete keys of ks to acc, skipping identifiers acc already holds.
RECURSIVE AppendNewDiscrete(_, _)
AppendNewDiscrete(acc, ks) ==
  IF ks = <<>> THEN acc
  ELSE AppendNewDiscrete(
         IF Head(ks)[1] \in Range(Indices(acc)) THEN acc ELSE Append(acc, Head(ks)),
         Tail(ks))

\* Caller contract: an identifier present in both inputs has one cardinality.
Consistent(a, b) ==
  \A i \in 1..Len(a), j \in 1..Len(b) : a[i][1] = b[j][1] => a[i][2] = b[j][2]

\* Faulty variant: plain concatenation, shared identifiers appear twice.
CollectDiscreteKeysConcat(a, b) == a \o b

CollectDiscreteKeys(a, b) == AppendNewDiscrete(AppendNewDiscrete(<<>>, a), b)

(***************************************************************************)
(* HybridFactor                                                            *)
(***************************************************************************)
\* In-class member initialisers of the three flags.
\* Faulty variants: one flag initialised to true.
DefaultFlagsContinuous ==
  [isDiscrete_ |-> FALSE, isContinuous_ |-> TRUE, isHybrid_ |-> FALSE]
DefaultFlagsHybrid ==
  [isDiscrete_ |-> FALSE, isContinuous_ |-> FALSE, isHybrid_ |-> TRUE]

DefaultFlags == [isDiscrete_ |-> FALSE, isContinuous_ |-> FALSE, isHybrid_ |-> FALSE]

\* HybridFactor() = default : flags keep their initialisers, key sets are empty.
NewDefault ==
  [isDiscrete_     |-> DefaultFlags.isDiscrete_,
   isContinuous_   |-> DefaultFlags.isContinuous_,
   isHybrid_       |-> DefaultFlags.isHybrid_,
   discreteKeys_   |-> <<>>,
   continuousKeys_ |-> <<>>,
   keys_           |-> <<>>]

\* HybridFactor(continuousKeys, discreteKeys)
NewHybridFactor(continuousKeys, discreteKeys) ==
  [isDiscrete_     |-> (Len(continuousKeys) = 0) /\ (Len(discreteKeys) # 0),
   isContinuous_   |-> (Len(continuousKeys) # 0) /\ (Len(discreteKeys) = 0),
   isHybrid_       |-> (Len(continuousKeys) # 0) /\ (Len(discreteKeys) # 0),
   discreteKeys_   |-> discreteKeys,
   continuousKeys_ |-> continuousKeys,
   keys_           |-> CollectKeysCD(continuousKeys, discreteKeys)]

\* explicit HybridFactor(const KeyVector &keys)
NewFromKeys(keys) == NewHybridFactor(keys, <<>>)

\* explicit HybridFactor(const DiscreteKeys &discreteKeys)
NewFromDiscreteKeys(discreteKeys) == NewHybridFactor(<<>>, discreteKeys)

\* Accessors
\* Faulty variant: the accessor returns the neighbouring member.
isDiscreteWrongMember(f) == f.isContinuous_

isDiscrete(f)     == f.isDiscrete_
isContinuous(f)   == f.isContinuous_
isHybrid(f)       == f.isHybrid_
nrContinuous(f)   == Len(f.continuousKeys_)
discreteKeys(f)   == f.discreteKeys_
continuousKeys(f) == f.continuousKeys_

\* Inputs of the constructors
FactorContKeys == 1..2
FactorDiscKeys == {<<k, c>> : k \in 3..4, c \in 2..3}
ContKeyVectors == SeqsUpTo(FactorContKeys, MaxFactorKeys)
DiscKeyVectors == {s \in SeqsUpTo(FactorDiscKeys, MaxFactorKeys) : NoDup(Indices(s))}

FactorIdle == factor = None /\ form = "none" /\ argC = <<>> /\ argD = <<>> /\ obs = None

ConstructDefault ==
  /\ factor = None
  /\ factor' = Some(NewDefault)
  /\ form' = "default" /\ argC' = <<>> /\ argD' = <<>>
  /\ UNCHANGED <<obs, keyVars, eqVars, treeVars>>

ConstructFromKeys ==
  /\ factor = None
  /\ \E keys \in ContKeyVectors :
       /\ factor' = Some(NewFromKeys(keys))
       /\ form' = "continuous" /\ argC' = keys /\ argD' = <<>>
  /\ UNCHANGED <<obs, keyVars, eqVars, treeVars>>

ConstructFromDiscreteKeys ==
  /\ factor = None
  /\ \E dks \in DiscKeyVectors :
       /\ factor' = Some(NewFromDiscreteKeys(dks))
       /\ form' = "discrete" /\ argC' = <<>> /\ argD' = dks
  /\ UNCHANGED <<obs, keyVars, eqVars, treeVars>>

ConstructFromBoth ==
  /\ factor = None
  /\ \E keys \in ContKeyVectors, dks \in DiscKeyVectors :
       /\ factor' = Some(NewHybridFactor(keys, dks))
       /\ form' = "both" /\ argC' = keys /\ argD' = dks
  /\ UNCHANGED <<obs, keyVars, eqVars, treeVars>>

\* A caller reads every accessor of the live object.
Query ==
  /\ factor # None
  /\ obs' = Some([isDiscrete     |-> isDiscrete(The(factor)),
                  isContinuous   |-> isContinuous(The(factor)),
                  isHybrid       |-> isHybrid(The(factor)),
                  nrContinuous   |-> nrContinuous(The(factor)),
                  discreteKeys   |-> discreteKeys(The(factor)),
                  continuousKeys |-> continuousKeys(The(factor))])
  /\ UNCHANGED <<factor, form, argC, argD, keyVars, eqVars, treeVars>>

\* virtual ~HybridFactor() = default
Destroy ==
  /\ factor # None
  /\ factor' = None /\ form' = "none" /\ argC' = <<>> /\ argD' = <<>> /\ obs' = None
  /\ UNCHANGED <<keyVars, eqVars, treeVars>>


FactorNext ==
  \/ ConstructDefault
  \/ ConstructFromKeys
  \/ ConstructFromDiscreteKeys
  \/ ConstructFromBoth
  \/ Query
  \/ Destroy

(***************************************************************************)
(* GaussianFactorGraph as seen by GraphAndConstant                         *)
(***************************************************************************)
\* The factors on the heap, by pointer, and the coefficient each one holds:
\* factors 2 and 3 are distinct objects with equal contents.
FactorPtrs == {1, 2, 3}
HeapVal(p) == p \div 2

\* graph == other.graph : the vectors of factor pointers are the same
GraphOpEq(g1, g2) == g1 = g2

\* graph.equals(other.graph, tol) : same size, factors equal within tol
GraphEquals(g1, g2, t) ==
  /\ Len(g1) = Len(g2)
  /\ \A i \in 1..Len(g1) : ~(Abs(HeapVal(g1[i]) - HeapVal(g2[i])) > t)

(***************************************************************************)
(* GraphAndConstant                                                        *)
(***************************************************************************)
GraphAndConstant(graph, constant) == [graph |-> graph, constant |-> constant]

\* Faulty variants of operator==.
operatorEqGraphOnly(a, b) == GraphOpEq(a.graph, b.graph)
operatorEqConstOnly(a, b) == a.constant = b.constant
operatorEqEither(a, b) == GraphOpEq(a.graph, b.graph) \/ a.constant = b.constant

operatorEq(a, b) == GraphOpEq(a.graph, b.graph) /\ a.constant = b.constant

fabs(v) == IF v < 0 THEN -v ELSE v

\* Faulty variant: the bound on the constants is not strict.
equalsNotStrict(a, b, t) ==
  GraphEquals(a.graph, b.graph, t) /\ fabs(a.constant - b.constant) <= t

equals(a, b, t) ==
  GraphEquals(a.graph, b.graph, t) /\ fabs(a.constant - b.constant) < t

Graphs      == SeqsUpTo(FactorPtrs, MaxGraphLen)
Subproblems == {GraphAndConstant(g, c) : g \in Graphs, c \in 0..MaxConst}
Tolerances  == 0..MaxTol

EqualsIdle == x = GraphAndConstant(<<>>, 0) /\ y = x /\ tol = 0 /\ resEquals = None /\ resOpEq = None

CallEquals ==
  /\ resEquals = None
  /\ resEquals' = Some(equals(x, y, tol))
  /\ UNCHANGED <<x, y, tol, resOpEq, factorVars, keyVars, treeVars>>

CallOperatorEq ==
  /\ resOpEq = None
  /\ resOpEq' = Some(operatorEq(x, y))
  /\ UNCHANGED <<x, y, tol, resEquals, factorVars, keyVars, treeVars>>

EqualsNext == CallEquals \/ CallOperatorEq

(***************************************************************************)
(* Calls of the key-set utilities                                          *)
(***************************************************************************)
KeyVectors == SeqsUpTo(1..NumKeys, MaxLen)
DiscreteKeyVectors ==
  {s \in SeqsUpTo((1..NumKeys) \X (2..3), MaxDLen) : NoDup(Indices(s))}

KeysIdle == keys1 = <<>> /\ keys2 = <<>> /\ allKeys = None
DKeysIdle == dkey1 = <<>> /\ dkey2 = <<>> /\ allDKeys = None

CallCollectKeys ==
  /\ allKeys = None
  /\ allKeys' = Some(CollectKeys(keys1, keys2))
  /\ UNCHANGED <<keys1, keys2, dkey1, dkey2, allDKeys, factorVars, eqVars, treeVars>>

CallCollectDiscreteKeys ==
  /\ allDKeys = None
  /\ Consistent(dkey1, dkey2)
  /\ allDKeys' = Some(CollectDiscreteKeys(dkey1, dkey2))
  /\ UNCHANGED <<dkey1, dkey2, keys1, keys2, allKeys, factorVars, eqVars, treeVars>>

\* The same identifier with two cardinalities: the merge is refused.
CollectDiscreteKeysFails ==
  /\ allDKeys = None
  /\ ~Consistent(dkey1, dkey2)
  /\ allDKeys' = Some("failed")
  /\ UNCHANGED <<dkey1, dkey2, keys1, keys2, allKeys, factorVars, eqVars, treeVars>>

KeysNext == CallCollectKeys
DKeysNext == CallCollectDiscreteKeys \/ CollectDiscreteKeysFails


(***************************************************************************)
(* GaussianFactorGraphTree = DecisionTree<Key, GraphAndConstant>           *)
(***************************************************************************)
Leaf(v) == [leaf |-> TRUE, value |-> v]
Choice(label, branches) == [leaf |-> FALSE, label |-> label, branches |-> branches]

\* A choice node all of whose branches are the same leaf collapses to that leaf.
Unique(c) ==
  IF \A i \in 1..Len(c.branches) :
       /\ c.branches[i].leaf
       /\ operatorEq(c.branches[1].value, c.branches[i].value)
  THEN Leaf(c.branches[1].value)
  ELSE c

RECURSIVE Prod(_)
Prod(dks) == IF dks = <<>> THEN 1 ELSE Head(dks)[2] * Prod(Tail(dks))

\* Construction from an explicit enumeration: the first key is the most
\* significant, each key ranges over 0..cardinality-1.
RECURSIVE Build(_, _)
Build(dks, ys) ==
  IF dks = <<>> THEN Leaf(ys[1])
  ELSE LET n == Head(dks)[2]
           m == Len(ys) \div n
       IN  Unique(Choice(Head(dks)[1],
                         [i \in 1..n |->
                            Build(Tail(dks), SubSeq(ys, (i - 1) * m + 1, i * m))]))

\* Lookup by full assignment (a function from key to value).
RECURSIVE Lookup(_, _)
Lookup(t, a) ==
  IF t.leaf THEN t.value ELSE Lookup(t.branches[a[t.label] + 1], a)

\* The binary leaf operator of the elimination code: concatenate, add.
AddLeaves(a, b) == GraphAndConstant(a.graph \o b.graph, a.constant + b.constant)

\* The tree with key k fixed to its i-th value.
RECURSIVE Restrict(_, _, _)
Restrict(t, k, i) ==
  IF t.leaf THEN t
  ELSE IF t.label = k THEN t.branches[i]
  ELSE Unique(Choice(t.label,
                     [j \in 1..Len(t.branches) |-> Restrict(t.branches[j], k, i)]))

\* Combine two trees leaf by leaf with the binary operator.
RECURSIVE Apply(_, _)
Apply(f, g) ==
  IF f.leaf /\ g.leaf THEN Leaf(AddLeaves(f.value, g.value))
  ELSE IF ~f.leaf
  THEN Unique(Choice(f.label,
                     [i \in 1..Len(f.branches) |->
                        Apply(f.branches[i], Restrict(g, f.label, i))]))
  ELSE Unique(Choice(g.label,
                     [i \in 1..Len(g.branches) |-> Apply(f, g.branches[i])]))

\* Inputs
LeafGraphs == {<<1>>, <<2>>}
LeafValues == {GraphAndConstant(g, c) : g \in LeafGraphs, c \in 0..MaxLeafConst}
KeyOrders(pool) == {s \in SeqsUpTo(pool, Cardinality(pool)) : NoDup(Indices(s))}
Assignments(dks) ==
  {a \in [Range(Indices(dks)) -> 0..2] :
     \A i \in 1..Len(dks) : a[dks[i][1]] < dks[i][2]}

TreeIdle == /\ tKeys = <<>> /\ tLeaves = <<>> /\ tree = None
            /\ oKeys = <<>> /\ oLeaves = <<>> /\ other = None
            /\ combined = None /\ asg = None /\ got = None

BuildTree ==
  /\ tree = None
  /\ tree' = Some(Build(tKeys, tLeaves))
  /\ UNCHANGED <<tKeys, tLeaves, oKeys, oLeaves, other, combined, asg, got,
                 factorVars, keyVars, eqVars>>

LookupTree ==
  /\ tree # None
  /\ \E a \in Assignments(tKeys) :
       /\ asg' = Some(a)
       /\ got' = Some(Lookup(The(tree), a))
  /\ UNCHANGED <<tKeys, tLeaves, tree, oKeys, oLeaves, other, combined,
                 factorVars, keyVars, eqVars>>

BuildOther ==
  /\ other = None
  /\ other' = Some(Build(oKeys, oLeaves))
  /\ UNCHANGED <<tKeys, tLeaves, tree, oKeys, oLeaves, combined, asg, got,
                 factorVars, keyVars, eqVars>>

Combine ==
  /\ tree # None /\ other # None /\ combined = None
  /\ combined' = Some(Apply(The(tree), The(other)))
  /\ UNCHANGED <<tKeys, tLeaves, tree, oKeys, oLeaves, other, asg, got,
                 factorVars, keyVars, eqVars>>

LookupCombined ==
  /\ combined # None
  /\ \E a \in Assignments(CollectDiscreteKeys(tKeys, oKeys)) :
       /\ asg' = Some(a)
       /\ got' = Some(Lookup(The(combined), a))
  /\ UNCHANGED <<tKeys, tLeaves, tree, oKeys, oLeaves, other, combined,
                 factorVars, keyVars, eqVars>>

TreeNext == BuildTree \/ LookupTree
CombineNext == BuildTree \/ BuildOther \/ Combine \/ LookupCombined

(***************************************************************************)
(* Specifications                                                          *)
(***************************************************************************)
\* The life of a HybridFactor object.
FactorInit == FactorIdle /\ KeysIdle /\ DKeysIdle /\ EqualsIdle /\ TreeIdle
SpecFactor == FactorInit /\ [][FactorNext]_vars

\* CollectKeys(keys1, keys2) on every pair of bounded key vectors.
KeysInit ==
  /\ FactorIdle /\ DKeysIdle /\ EqualsIdle /\ TreeIdle
  /\ keys1 \in KeyVectors /\ keys2 \in KeyVectors /\ allKeys = None
SpecKeys == KeysInit /\ [][KeysNext]_vars

\* CollectDiscreteKeys(key1, key2) on every pair of bounded discrete key sets.
DKeysInit ==
  /\ FactorIdle /\ KeysIdle /\ EqualsIdle /\ TreeIdle
  /\ dkey1 \in DiscreteKeyVectors /\ dkey2 \in DiscreteKeyVectors /\ allDKeys = None
SpecDKeys == DKeysInit /\ [][DKeysNext]_vars

\* The two comparisons of GraphAndConstant on every bounded pair.
EqualsInit ==
  /\ FactorIdle /\ KeysIdle /\ DKeysIdle /\ TreeIdle
  /\ x \in Subproblems /\ y \in Subproblems /\ tol \in Tolerances
  /\ resEquals = None /\ resOpEq = None
SpecEquals == EqualsInit /\ [][EqualsNext]_vars

\* Building one tree from an enumeration and looking assignments up.
TreePool == {<<1, 2>>, <<2, 3>>}
TreeInit ==
  /\ FactorIdle /\ KeysIdle /\ DKeysIdle /\ EqualsIdle
  /\ tKeys \in KeyOrders(TreePool)
  /\ tLeaves \in [1..Prod(tKeys) -> LeafValues]
  /\ tree = None
  /\ oKeys = <<>> /\ oLeaves = <<>> /\ other = None
  /\ combined = None /\ asg = None /\ got = None
SpecTree == TreeInit /\ [][TreeNext]_vars

\* Building two trees and combining them leaf by leaf.
CombinePool == {<<1, 2>>, <<2, 2>>}
CombineInit ==
  /\ FactorIdle /\ KeysIdle /\ DKeysIdle /\ EqualsIdle
  /\ tKeys \in KeyOrders(CombinePool)
  /\ tLeaves \in [1..Prod(tKeys) -> {GraphAndConstant(<<1>>, c) : c \in 0..MaxLeafConst}]
  /\ oKeys \in KeyOrders(CombinePool)
  /\ oLeaves \in [1..Prod(oKeys) -> {GraphAndConstant(<<2>>, c) : c \in 0..MaxLeafConst}]
  /\ tree = None /\ other = None
  /\ combined = None /\ asg = None /\ got = None
SpecCombine == CombineInit /\ [][CombineNext]_vars


(***************************************************************************)
(* Properties                                                              *)
(***************************************************************************)
NumTrue(f) ==
  (IF isDiscrete(f) THEN 1 ELSE 0) + (IF isContinuous(f) THEN 1 ELSE 0)
    + (IF isHybrid(f) THEN 1 ELSE 0)
BothNonEmpty(f) == discreteKeys(f) # <<>> /\ continuousKeys(f) # <<>>
SomeNonEmpty(f) == discreteKeys(f) # <<>> \/ continuousKeys(f) # <<>>

\* C1 as stated: every live HybridFactor, the default-constructed one included,
\* has exactly one of the three flags true, and isHybrid() iff both key sets
\* are non-empty.
C1_ExactlyOneAlways ==
  factor # None =>
    /\ NumTrue(The(factor)) = 1
    /\ isHybrid(The(factor)) <=> BothNonEmpty(The(factor))

\* C1 amended: at most one flag is ever true; exactly one is true when some key
\* set is non-empty; the default-constructed factor has none true; isHybrid()
\* iff both key sets are non-empty.
C1_AtMostOneFlag ==
  factor # None =>
    /\ NumTrue(The(factor)) <= 1
    /\ SomeNonEmpty(The(factor)) => NumTrue(The(factor)) = 1
    /\ form = "default" => NumTrue(The(factor)) = 0
    /\ isHybrid(The(factor)) <=> BothNonEmpty(The(factor))

C1_Witness ==
  /\ factor # None /\ form = "default"
  /\ NumTrue(The(factor)) = 0
  /\ ~SomeNonEmpty(The(factor))

\* C2: a factor whose two key sets are both empty reports isContinuous(),
\* isDiscrete() and isHybrid() all false.
C2_EmptyAllFalse ==
  (obs # None /\ The(obs).discreteKeys = <<>> /\ The(obs).continuousKeys = <<>>) =>
    /\ ~The(obs).isContinuous
    /\ ~The(obs).isDiscrete
    /\ ~The(obs).isHybrid

C2_Witness ==
  /\ obs # None /\ form = "default"
  /\ The(obs).discreteKeys = <<>> /\ The(obs).continuousKeys = <<>>
  /\ The(obs).nrContinuous = 0
  /\ ~The(obs).isContinuous /\ ~The(obs).isDiscrete /\ ~The(obs).isHybrid

\* C3: for a factor constructed from continuous keys C and discrete keys D (an
\* unsupplied set counting as empty), isContinuous() iff C non-empty and D
\* empty, isDiscrete() iff D non-empty and C empty, isHybrid() iff both
\* non-empty, and the key accessors return D and C as supplied.
C3_FlagsFromKeys ==
  (obs # None /\ form # "default") =>
    /\ The(obs).isContinuous <=> (argC # <<>> /\ argD = <<>>)
    /\ The(obs).isDiscrete <=> (argD # <<>> /\ argC = <<>>)
    /\ The(obs).isHybrid <=> (argC # <<>> /\ argD # <<>>)
    /\ The(obs).discreteKeys = argD
    /\ The(obs).continuousKeys = argC

C3_Witness ==
  /\ obs # None /\ form = "both"
  /\ argC # <<>> /\ argD # <<>>
  /\ The(obs).isHybrid /\ ~The(obs).isContinuous /\ ~The(obs).isDiscrete
  /\ The(obs).discreteKeys = argD /\ The(obs).continuousKeys = argC

FirstIndex(s, e) == CHOOSE i \in 1..Len(s) : s[i] = e /\ \A j \in 1..(i - 1) : s[j] # e

\* out holds each key of a and b exactly once, nothing else, by first occurrence
\* in a followed by b.
OrderedUnion(a, b, out) ==
  /\ NoDup(out)
  /\ Range(out) = Range(a) \cup Range(b)
  /\ \A i, j \in 1..Len(out) :
       i < j => FirstIndex(a \o b, out[i]) < FirstIndex(a \o b, out[j])

\* C4: a call of CollectKeys(a, b) leaves a and b as they were and returns each
\* key of a or b exactly once, no other key, ordered by first occurrence in a
\* then b.
C4_CollectKeysOrderedUnion ==
  [][allKeys' # allKeys =>
       /\ keys1' = keys1 /\ keys2' = keys2
       /\ OrderedUnion(keys1, keys2, The(allKeys'))]_vars

C4_Witness ==
  /\ allKeys # None
  /\ ~NoDup(keys1)
  /\ Range(keys1) \cap Range(keys2) # {}
  /\ ~(Range(keys2) \subseteq Range(keys1))
  /\ Len(The(allKeys)) < Len(keys1) + Len(keys2)

\* The keys of s appear in out in the order they have in s.
KeepsOrder(s, out) ==
  \A i, j \in 1..Len(s) :
    i < j => /\ s[i] \in Range(out) /\ s[j] \in Range(out)
             /\ FirstIndex(out, s[i]) < FirstIndex(out, s[j])

\* C5 as stated: on inputs with consistent cardinalities the result has no
\* identifier twice, holds every key of a and of b, and keeps the relative
\* order of a's keys and of b's keys.
C5_KeepsBothOrders ==
  (allDKeys # None /\ Consistent(dkey1, dkey2)) =>
    /\ NoDup(Indices(The(allDKeys)))
    /\ Range(dkey1) \cup Range(dkey2) \subseteq Range(The(allDKeys))
    /\ KeepsOrder(dkey1, The(allDKeys))
    /\ KeepsOrder(dkey2, The(allDKeys))

\* C5 amended: the result has no identifier twice, holds every key of a and of
\* b with its cardinality and nothing else, keeps the relative order of a's
\* keys, and keeps the relative order of those keys of b that are not in a.
C5_KeepsFirstOrder ==
  (allDKeys # None /\ Consistent(dkey1, dkey2)) =>
    /\ NoDup(Indices(The(allDKeys)))
    /\ Range(dkey1) \cup Range(dkey2) = Range(The(allDKeys))
    /\ KeepsOrder(dkey1, The(allDKeys))
    /\ KeepsOrder(SelectSeq(dkey2, LAMBDA k : k \notin Range(dkey1)), The(allDKeys))

C5_Witness ==
  /\ allDKeys # None /\ Consistent(dkey1, dkey2)
  /\ Len(dkey1) = 2 /\ Len(dkey2) = 2
  /\ dkey2[2] = dkey1[1] /\ dkey2[1] \notin Range(dkey1)
  /\ The(allDKeys) = Append(dkey1, dkey2[1])

\* C6: equals(x, y, tol) is true exactly when the graphs are equal under the
\* graph's tolerance equality and the constants differ by less than tol.
C6_EqualsIffWithinTol ==
  resEquals # None =>
    (The(resEquals) <=>
       /\ GraphEquals(x.graph, y.graph, tol)
       /\ y.constant - tol < x.constant
       /\ x.constant < y.constant + tol)

C6_Witness ==
  /\ resEquals = Some(TRUE)
  /\ x.graph = y.graph /\ x.graph # <<>>
  /\ x.constant # y.constant

\* C7 as stated: equals is reflexive for every tolerance tol >= 0, tol = 0
\* included.
C7_Reflexive ==
  (resEquals # None /\ x = y) => The(resEquals) = TRUE

\* C10: for tol > 0, x == y implies x.equals(y, tol); the converse fails (x is
\* equals, but not ==, to a subproblem with the same graph and a constant
\* within the tolerance); and at tol = 0, x == x although x is not equals to x.
C10_OperatorEqImpliesEquals ==
  /\ (resEquals # None /\ resOpEq # None /\ tol > 0 /\ The(resOpEq)) => The(resEquals)
  /\ \E c \in 0..MaxConst, t \in Tolerances :
       LET b == GraphAndConstant(x.graph, c)
       IN  t > 0 /\ equals(x, b, t) /\ ~operatorEq(x, b)
  /\ operatorEq(x, x) /\ ~equals(x, x, 0)

C10_Witness ==
  /\ resEquals = Some(TRUE) /\ resOpEq = Some(TRUE)
  /\ tol > 0 /\ x.graph # <<>>

\* Position (from 0) of assignment a in the canonical enumeration over dks.
RECURSIVE ListIndex(_, _)
ListIndex(dks, a) ==
  IF dks = <<>> THEN 0
  ELSE a[Head(dks)[1]] * Prod(Tail(dks)) + ListIndex(Tail(dks), a)

Supplied(dks, ys, a) == ys[ListIndex(dks, a) + 1]

\* C8: a lookup of the built tree at any full assignment returns exactly the
\* subproblem supplied for that assignment, merged leaves included.
C8_LookupReturnsSupplied ==
  (tree # None /\ combined = None /\ got # None) =>
    The(got) = Supplied(tKeys, tLeaves, The(asg))

C8_Witness ==
  /\ tree # None /\ got # None /\ combined = None
  /\ Len(tKeys) = 2
  /\ ~The(tree).leaf
  /\ \A i \in 1..Len(The(tree).branches) : The(tree).branches[i].leaf
  /\ The(got) = Supplied(tKeys, tLeaves, The(asg))
  /\ The(got) # tLeaves[1]

\* C9: the leaf-wise combination looked up at a joint assignment is the graph
\* of the first tree's leaf followed by that of the second tree's leaf, with
\* the sum of their constants, each leaf taken at the projection of the
\* assignment onto that tree's keys.
C9_CombineLeafwise ==
  (combined # None /\ got # None) =>
    LET l1 == Supplied(tKeys, tLeaves, The(asg))
        l2 == Supplied(oKeys, oLeaves, The(asg))
    IN  /\ The(got).constant = l1.constant + l2.constant
        /\ The(got).graph = l1.graph \o l2.graph

C9_Witness ==
  /\ combined # None /\ got # None
  /\ Len(tKeys) = 1 /\ Len(oKeys) = 2
  /\ tKeys[1] = oKeys[2]
  /\ The(got).constant = 2
  /\ The(got).graph = <<1, 2>>
  /\ ~The(combined).leaf

====
